---------------------------- MODULE Spec2Model ----------------------------
(***************************************************************************)
(* A3R_Readout: timing quantization, the batch validator and the           *)
(* experiment builders of helper_funcs/helpers.py and                      *)
(* helper_funcs/experiments.py.                                            *)
(*                                                                         *)
(* The program has no persistent state: every function is called on its    *)
(* own.  A behaviour of the model is one invocation: the state starts      *)
(* idle, one action applies a function (or a constructor followed by       *)
(* get_jobs) to inputs drawn from bounded sets, and the variables record   *)
(* the call, what it returned or raised, and the side effects the claims   *)
(* speak about (catalog lookups, sequences built).                         *)
(*                                                                         *)
(* Real numbers (seconds, sample counts before rounding, frequencies) are  *)
(* exact rationals <<numerator, denominator>> with a positive denominator; *)
(* floating-point rounding error is not modelled.                          *)
(***************************************************************************)
EXTENDS Integers, Sequences, FiniteSets, TLC

VARIABLES pc, fn, args, ret, obj, batch

vars == <<pc, fn, args, ret, obj, batch>>

(***************************************************************************)
(* Bounds of the model.                                                    *)
(***************************************************************************)
\* largest whole value handed to the quantizer is 16 * MaxMult + 15
MaxMult == 2
\* most schedules in a job handed to acquisition_checker
MaxJob == 3
\* most instructions in a job, over all its schedules
MaxInstr == 3
\* longest frequency sweep (explicit, or num_experiments)
MaxN == 3
\* longest secondary sweep (measurement delays, Ramsey delay offsets)
MaxM == 2

(***************************************************************************)
(* Rationals and Python's int().                                           *)
(***************************************************************************)
Rat(n, d) == <<n, d>>

\* int(x) of a float x = n/d, d > 0: truncation toward zero
PyInt(n, d) == IF n >= 0 THEN n \div d ELSE -((-n) \div d)

(***************************************************************************)
(* helpers.py: quantization                                                *)
(***************************************************************************)
\* a quantizer that drops the half-step before truncating:
\* int(value) - (int(value) % base_number)
get_closest_multiple_of_trunc(value, base_number) ==
    LET t == PyInt(value[1], value[2])
    IN  t - (t % base_number)

\* a quantizer that adds the whole step instead of half of it:
\* int(value + base_number) - (int(value + base_number) % base_number)
get_closest_multiple_of_fullstep(value, base_number) ==
    LET t == PyInt(value[1] + base_number * value[2], value[2])
    IN  t - (t % base_number)

\* int(value + base_number / 2) - (int(value + base_number / 2) % base_number)
get_closest_multiple_of(value, base_number) ==
    LET t == PyInt(2 * value[1] + base_number * value[2], 2 * value[2])
    IN  t - (t % base_number)

get_closest_multiple_of_16(num) == get_closest_multiple_of(num, 16)

\* Convert seconds to dt: get_closest_multiple_of(sec / dt, 16).  sec and dt
\* are rationals in nanoseconds.
get_dt_from(sec, dt) ==
    get_closest_multiple_of(Rat(sec[1] * dt[2], sec[2] * dt[1]), 16)

\* the default of get_dt_from's dt: 1 / 4.5 * 1.0e-9 s = 2/9 ns
DefaultDt == Rat(2, 9)

(***************************************************************************)
(* Outcomes of a call.  exc is "none" when the call returned; otherwise    *)
(* the Python exception type, with msg naming the raise statement.         *)
(* lookups counts the calls of get_single_qubit_pulses the invocation      *)
(* made, built the schedules whose pulse.build block it completed.         *)
(***************************************************************************)
Outcome(e, m, v, l, b) ==
    [exc |-> e, msg |-> m, value |-> v, lookups |-> l, built |-> b]

\* the value of a call that returns None, and of one that raised
NoValue == [none |-> TRUE]

Returned(v) == Outcome("none", "", v, 0, 0)
Raised(e, m) == Outcome(e, m, NoValue, 0, 0)

(***************************************************************************)
(* helpers.py: acquisition_checker                                         *)
(*                                                                         *)
(* A job is a sequence of schedules; a schedule is the sequence of the     *)
(* operations of schedule.instructions (column 1 of the array), each       *)
(* [op, duration].                                                         *)
(***************************************************************************)
Instr(o, d) == [op |-> o, duration |-> d]

RECURSIVE FlatOps(_)
\* ops_array of every schedule, in job order
FlatOps(job) ==
    IF job = <<>> THEN <<>> ELSE Head(job) \o FlatOps(Tail(job))

RECURSIVE DurationsOf(_, _)
\* the durations of the operations of class kinds, in order
DurationsOf(ops, kinds) ==
    IF ops = <<>> THEN <<>>
    ELSE (IF Head(ops).op \in kinds THEN <<Head(ops).duration>> ELSE <<>>)
         \o DurationsOf(Tail(ops), kinds)

\* isinstance(op, pulse.Play) is the only test that feeds all_duration_list
all_duration_kinds == {"Play"}

\* acq_duration_array[0] % 16 != 0
acq_misaligned(acq) == acq[1] % 16 # 0

\* a checker that writes .any() for .all():
\* not (acq_duration_array == acq_duration_array[0]).any()
acq_differ_any(acq) == ~(\E i \in 1..Len(acq) : acq[i] = acq[1])

\* not (acq_duration_array == acq_duration_array[0]).all()
acq_differ(acq) == \E i \in 1..Len(acq) : acq[i] # acq[1]

acquisition_checker(job) ==
    LET acq == DurationsOf(FlatOps(job), {"Acquire"})
        all == DurationsOf(FlatOps(job), all_duration_kinds)
    IN  IF \E k \in 1..Len(job) : job[k] = <<>>
        THEN \* instructions_array[:, 1] of a schedule without instructions
             Raised("IndexError", "instructions_array")
        ELSE IF \E i \in 1..Len(all) : all[i] % 16 # 0
        THEN Raised("ValueError", "not divisible by 16")
        ELSE IF \E i \in 1..Len(all) : all[i] = 0
        THEN Raised("ValueError", "duration of 0")
        ELSE IF Len(acq) # Len(job)
        THEN Raised("ValueError", "less/more than one acquisition")
        ELSE IF acq = <<>>
        THEN \* acq_duration_array[0] of an empty array
             Raised("IndexError", "acq_duration_array")
        ELSE IF acq_differ(acq)
        THEN Raised("ValueError", "not identical")
        ELSE IF acq_misaligned(acq)
        THEN Raised("ValueError", "acquisition not multiple of 16")
        ELSE Returned(NoValue)

(***************************************************************************)
(* helpers.py: get_single_qubit_pulses.  The backend's calibrated pulses   *)
(* are an external collaborator; only the durations the builders read are  *)
(* kept.  The lookup itself is taken to succeed.                           *)
(***************************************************************************)
get_single_qubit_pulses ==
    [x_pulse |-> [duration |-> 160],
     sx_pulse |-> [duration |-> 160],
     meas_pulse |-> [duration |-> 1440],
     meas_delay |-> [duration |-> 1568]]

\* backend.configuration().dt, in nanoseconds
BackendDt == Rat(2, 9)

(***************************************************************************)
(* Schedules as the builders assemble them: a name and the instructions in *)
(* the order they were added inside the pulse.build block.  An instruction *)
(* is an operation on a channel ("d" drive, "m" measure, "a" acquire) with *)
(* a duration or a frequency; param names the free Parameter standing for  *)
(* that number in a template ("" when the number is concrete), align the   *)
(* alignment context the instruction was added in.  Pulse shape parameters *)
(* other than the duration (amp, sigma, width, angle) are left out.        *)
(***************************************************************************)
BInstr(o, c, d, f, p, a) ==
    [op |-> o, chan |-> c, duration |-> d, freq |-> f, param |-> p,
     align |-> a]

shift_frequency(f, c) == BInstr("ShiftFrequency", c, 0, f, "", "sequential")
shift_frequency_param(p, c) ==
    BInstr("ShiftFrequency", c, 0, Rat(0, 1), p, "sequential")
play(d, c) == BInstr("Play", c, d, Rat(0, 1), "", "sequential")
delay(d, c) == BInstr("Delay", c, d, Rat(0, 1), "", "sequential")
delay_param(p, c) == BInstr("Delay", c, 0, Rat(0, 1), p, "sequential")
align_right(i) == [i EXCEPT !.align = "right"]

\* pulse.measure(qubit, MemorySlot(qubit)): the backend's measure schedule,
\* an acquisition, the calibrated measurement pulse and its delay
measure ==
    << BInstr("Acquire", "a", get_single_qubit_pulses.meas_pulse.duration,
              Rat(0, 1), "", "sequential"),
       play(get_single_qubit_pulses.meas_pulse.duration, "m"),
       delay(get_single_qubit_pulses.meas_delay.duration, "m") >>

Schedule(n, is) == [name |-> n, instrs |-> is]

(***************************************************************************)
(* Optional arguments and sweeps.  An optional number is [some, v]; a      *)
(* sweep argument is None, a Python list or a numpy array of rationals.    *)
(***************************************************************************)
None == [some |-> FALSE, v |-> 0]
Some(x) == [some |-> TRUE, v |-> x]

NoSweep == [kind |-> "None", vals |-> <<>>]
ListSweep(vs) == [kind |-> "list", vals |-> vs]
ArraySweep(vs) == [kind |-> "ndarray", vals |-> vs]

\* np.linspace(-0.5 * freq_span, 0.5 * freq_span, num_experiments)
linspace_centered(freq_span, num_experiments) ==
    IF num_experiments = 1 THEN <<Rat(-freq_span, 2)>>
    ELSE [i \in 1..num_experiments |->
             Rat(freq_span * (2 * (i - 1) - (num_experiments - 1)),
                 2 * (num_experiments - 1))]

(***************************************************************************)
(* helpers.py: rr_freq_spec and experiments.py: RRFreqSpec                 *)
(***************************************************************************)
\* construct_linspace = freq_span == None and num_experiments == None
construct_linspace(freq_span, num_experiments) ==
    ~freq_span.some /\ ~num_experiments.some

\* a validation written with logical_or for logical_xor
sweep_validation_or(freq_span, num_experiments, freq_linspace, np_empty_raises) ==
    IF freq_linspace.kind = "None"
          \/ (~freq_span.some /\ ~num_experiments.some)
    THEN "ok" ELSE "config"

\* The outcome of
\*     valid_setting = np.logical_xor(freq_linspace == None, construct_linspace)
\*     if not valid_setting: raise ValueError(...)
\* "ok", "config" (the raise) or "ambiguous" (the ValueError numpy raises for
\* the truth value of an array).  freq_linspace == None is a bool for None
\* and for a list, and an elementwise array of False for a numpy array.
\* The truth value of an empty array is False in older numpy releases and
\* an error in newer ones: np_empty_raises says which.
sweep_validation(freq_span, num_experiments, freq_linspace, np_empty_raises) ==
    LET cl == construct_linspace(freq_span, num_experiments)
        n == Len(freq_linspace.vals)
    IN  IF freq_linspace.kind = "ndarray"
        THEN IF n = 0
             THEN IF np_empty_raises THEN "ambiguous" ELSE "config"
             ELSE IF n = 1
             THEN IF (FALSE # cl) THEN "ok" ELSE "config"
             ELSE "ambiguous"
        ELSE IF ((freq_linspace.kind = "None") # cl) THEN "ok" ELSE "config"

\* one pass of the loop body: the ground and the excited schedule of a point
freq_spec_g(freq_shift) ==
    Schedule("freq spec g", <<shift_frequency(freq_shift, "m")>> \o measure)

freq_spec_e(freq_shift, x_pulse) ==
    Schedule("freq spec e",
             <<shift_frequency(freq_shift, "m"), play(x_pulse.duration, "d")>>
             \o measure)

\* The loop over freq_linspace and the return.  details is assigned inside
\* the loop from freq_linspace[1], freq_linspace[0] and freq_linspace[-1];
\* of details only "Total Experiment Size" is kept.
freq_spec_loop(sweep, x_pulse, lookups) ==
    LET n == Len(sweep)
    IN  IF n = 0
        THEN \* the loop body never runs: details is unbound at the return
             Outcome("UnboundLocalError", "details", NoValue, lookups, 0)
        ELSE IF n = 1
        THEN \* freq_linspace[1] in the first pass, after both schedules
             Outcome("IndexError", "freq_linspace[1]", NoValue, lookups, 2)
        ELSE Outcome("none", "",
                     [g |-> [i \in 1..n |-> freq_spec_g(sweep[i])],
                      e |-> [i \in 1..n |-> freq_spec_e(sweep[i], x_pulse)],
                      details |-> [total |-> n + n]],
                     lookups, 2 * n)

\* lines 100-109 of rr_freq_spec, 19-31 of RRFreqSpec.__init__: "sweep" and
\* the values to iterate over, or the exception
sweep_or_error(freq_span, num_experiments, freq_linspace, np_empty_raises) ==
    LET v == sweep_validation(freq_span, num_experiments, freq_linspace,
                              np_empty_raises)
    IN  IF v = "config"
        THEN [kind |-> "ValueError", msg |-> "either freq_linspace or span+num",
              vals |-> <<>>]
        ELSE IF v = "ambiguous"
        THEN [kind |-> "ValueError", msg |-> "truth value of an array",
              vals |-> <<>>]
        ELSE IF construct_linspace(freq_span, num_experiments)
        THEN [kind |-> "sweep", msg |-> "", vals |-> freq_linspace.vals]
        ELSE IF ~freq_span.some \/ ~num_experiments.some
        THEN \* -0.5 * None, or np.linspace(..., None)
             [kind |-> "TypeError", msg |-> "np.linspace", vals |-> <<>>]
        ELSE [kind |-> "sweep", msg |-> "",
              vals |-> linspace_centered(freq_span.v, num_experiments.v)]

rr_freq_spec(freq_span, num_experiments, freq_linspace, np_empty_raises) ==
    LET s == sweep_or_error(freq_span, num_experiments, freq_linspace,
                            np_empty_raises)
    IN  IF s.kind # "sweep"
        THEN Outcome(s.kind, s.msg, NoValue, 0, 0)
        ELSE freq_spec_loop(s.vals, get_single_qubit_pulses.x_pulse, 1)

\* RRFreqSpec.__init__: the outcome and the instance it leaves
RRFreqSpec_init(freq_span, num_experiments, freq_linspace, np_empty_raises) ==
    LET s == sweep_or_error(freq_span, num_experiments, freq_linspace,
                            np_empty_raises)
    IN  IF s.kind # "sweep"
        THEN [out |-> Outcome(s.kind, s.msg, NoValue, 0, 0),
              self |-> [cls |-> "none"]]
        ELSE [out |-> Outcome("none", "", NoValue, 1, 0),
              self |-> [cls |-> "RRFreqSpec", freq_linspace |-> s.vals,
                        x_pulse |-> get_single_qubit_pulses.x_pulse]]

RRFreqSpec_get_jobs(self) ==
    freq_spec_loop(self.freq_linspace, self.x_pulse, 0)

(***************************************************************************)
(* helpers.py: the AC-Stark builders, experiments.py: ACStarkPhoton        *)
(***************************************************************************)
\* whole sample counts are handed to the quantizer as they are
q16(n) == get_closest_multiple_of_16(Rat(n, 1))

\* get_closest_multiple_of_16(get_dt_from(sec)), dt at its default
quantized_dt(sec) == q16(get_dt_from(sec, DefaultDt))

\* a float, or an array of floats: isinstance(x, float) wraps the float
\* into an array of one
FloatArg(x) == [kind |-> "float", vals |-> <<x>>]
ArrayArg(xs) == [kind |-> "array", vals |-> xs]

\* schedule.assign_parameters({freq: f, meas_delay: m_delay}, inplace=False)
assign_parameters(sched, f, m_delay) ==
    [sched EXCEPT !.instrs =
        [k \in 1..Len(sched.instrs) |->
            LET i == sched.instrs[k]
            IN  IF i.param = "freq" THEN [i EXCEPT !.freq = f, !.param = ""]
                ELSE IF i.param = "meas delay"
                THEN [i EXCEPT !.duration = m_delay, !.param = ""]
                ELSE i]]

RECURSIVE Flatten(_)
\* the list that appending every element of every inner pass, in order,
\* leaves
Flatten(lists) ==
    IF lists = <<>> THEN <<>> ELSE Head(lists) \o Flatten(Tail(lists))

\* a grid loop with the two for statements swapped: frequencies outside,
\* measurement delays inside
bind_grid_freq_major(sched, freq_linspace, meas_delay_sec) ==
    Flatten([j \in 1..Len(freq_linspace) |->
                [i \in 1..Len(meas_delay_sec.vals) |->
                    assign_parameters(sched, freq_linspace[j],
                                      quantized_dt(meas_delay_sec.vals[i]))]])

\* for m_delay in meas_delay_sec: m_delay = quantize(...);
\*     for f in freq_linspace: big_exp.append(assign_parameters(...))
bind_grid(sched, freq_linspace, meas_delay_sec) ==
    Flatten([i \in 1..Len(meas_delay_sec.vals) |->
                [j \in 1..Len(freq_linspace) |->
                    assign_parameters(sched, freq_linspace[j],
                                      quantized_dt(meas_delay_sec.vals[i]))]])

\* a template whose buffer delay is handed over as given, not quantized
general_template_raw_buffer(meas_duration, qubit_duration, buffer_delay_duration) ==
    Schedule("Qubit Freq Spec",
             << shift_frequency_param("freq", "d"),
                play(q16(meas_duration), "m"),
                delay_param("meas delay", "m"),
                play(q16(qubit_duration), "d"),
                delay(buffer_delay_duration, "m") >> \o measure)

\* the template of general_ac_stark_photon_experiment
general_template(meas_duration, qubit_duration, buffer_delay_duration) ==
    Schedule("Qubit Freq Spec",
             << shift_frequency_param("freq", "d"),
                play(q16(meas_duration), "m"),
                delay_param("meas delay", "m"),
                play(q16(qubit_duration), "d"),
                delay(q16(buffer_delay_duration), "m") >> \o measure)

general_ac_stark_photon_experiment(freq_linspace, meas_duration, qubit_duration, buffer_delay_duration, meas_delay_sec) ==
    Outcome("none", "",
            [big_exp |->
                bind_grid(general_template(meas_duration, qubit_duration,
                                           buffer_delay_duration),
                          freq_linspace, meas_delay_sec)],
            1, 1)

\* the template of improved_ac_stark_photon_experiment and of
\* ACStarkPhoton.get_jobs; meas_pulse_duration is the duration of the
\* measurement pulse made before the block
improved_template(name, meas_pulse_duration, qubit_duration, buffer_delay_duration, delay_duration_dt) ==
    Schedule(name,
             << shift_frequency_param("freq", "d"),
                align_right(play(meas_pulse_duration, "m")),
                align_right(delay_param("meas delay", "m")),
                align_right(play(q16(qubit_duration), "d")),
                align_right(delay(q16(delay_duration_dt), "d")),
                delay(q16(buffer_delay_duration), "m") >> \o measure)

\* the modes for which improved_ac_stark_photon_experiment assigns meas_pulse
improved_modes == {"gaussian_square", "rectangular"}

improved_ac_stark_photon_experiment(freq_linspace, meas_duration, qubit_duration, buffer_delay_duration, meas_delay_sec, mode, delay_duration_dt) ==
    IF mode \notin improved_modes
    THEN \* neither "if mode ==" ran: meas_pulse is unbound at
         \* pulse.play(meas_pulse, ...) inside the pulse.build block
         Outcome("UnboundLocalError", "meas_pulse", NoValue, 1, 0)
    ELSE Outcome("none", "",
                 [big_exp |->
                     bind_grid(improved_template("Qubit Freq Spec",
                                                 q16(meas_duration),
                                                 qubit_duration,
                                                 buffer_delay_duration,
                                                 delay_duration_dt),
                               freq_linspace, meas_delay_sec)],
                 1, 1)

\* supported_modes of ACStarkPhoton.__init__
supported_modes == {"gaussian_square", "gaussian"}

ACStarkPhoton_init(freq_linspace, meas_duration, qubit_duration, buffer_delay_duration, meas_delay_sec, mode, delay_duration_dt) ==
    IF mode \notin supported_modes
    THEN [out |-> Outcome("ValueError", "mode is not supported", NoValue,
                          1, 0),
          self |-> [cls |-> "none"]]
    ELSE [out |-> Outcome("none", "", NoValue, 1, 0),
          self |-> [cls |-> "ACStarkPhoton",
                    freq_linspace |-> freq_linspace,
                    meas_pulse |-> [duration |-> q16(meas_duration)],
                    meas_duration |-> q16(meas_duration),
                    qubit_duration |-> qubit_duration,
                    buffer_delay_duration |-> buffer_delay_duration,
                    meas_delay_sec |-> meas_delay_sec,
                    mode |-> mode,
                    delay_duration_dt |-> delay_duration_dt]]

\* ACStarkPhoton.get_jobs builds the template and then reads the local
\* name meas_delay_sec (assigned only further down, never from self) in
\* isinstance(meas_delay_sec, float)
ACStarkPhoton_get_jobs(self) ==
    LET template == improved_template("AC Starks Freq Spec",
                                      self.meas_pulse.duration,
                                      self.qubit_duration,
                                      self.buffer_delay_duration,
                                      self.delay_duration_dt)
    IN  Outcome("UnboundLocalError", "meas_delay_sec", NoValue, 0, 1)

(***************************************************************************)
(* helpers.py: general_ramsey_t2_experiment.  Times are in nanoseconds and *)
(* freq_detuning in GHz, so that 1 / freq_detuning is a time.              *)
(***************************************************************************)
\* np.linspace(0.0, num_periods / freq_detuning,
\*             num_periods * points_per_period + 1)
ramsey_linspace(freq_detuning, num_periods, points_per_period) ==
    [k \in 1..(num_periods * points_per_period + 1) |->
        Rat((k - 1) * num_periods * freq_detuning[2],
            freq_detuning[1] * num_periods * points_per_period)]

ramsey_t2_sched(freq_detuning, delay_dur_dt, ramsey_delay_dur, buffer_duration, has_meas_block) ==
    Schedule("long ramsey t2",
             (IF has_meas_block
              THEN <<BInstr("Call", "m", 0, Rat(0, 1), "", "sequential")>>
              ELSE <<>>)
             \o <<delay(delay_dur_dt, "m")>>
             \o (IF freq_detuning[1] # 0
                 THEN <<shift_frequency(freq_detuning, "d")>> ELSE <<>>)
             \o << play(get_single_qubit_pulses.sx_pulse.duration, "d"),
                   delay(ramsey_delay_dur, "d"),
                   play(get_single_qubit_pulses.sx_pulse.duration, "d"),
                   delay(buffer_duration, "m") >>
             \o measure)

\* for delay_dur_sec in delay_duration_sec: ...
\*     for ramsey_delay_sec in ramsey_t2_linspace: ...
\*     big_experiments.append(ramsey_t2_experiments)
ramsey_loops(freq_detuning, linspace, delay_duration_sec, buffer_duration, has_meas_block) ==
    [i \in 1..Len(delay_duration_sec.vals) |->
        [j \in 1..Len(linspace) |->
            ramsey_t2_sched(freq_detuning,
                            quantized_dt(delay_duration_sec.vals[i]),
                            q16(get_dt_from(linspace[j], BackendDt)),
                            q16(buffer_duration), has_meas_block)]]

general_ramsey_t2_experiment(freq_detuning, num_periods, points_per_period, has_meas_block, buffer_duration, delay_duration_sec, inp_linspace) ==
    IF inp_linspace.kind = "None" /\ freq_detuning[1] = 0
    THEN \* num_periods / freq_detuning
         Outcome("ZeroDivisionError", "num_periods / freq_detuning", NoValue,
                 0, 0)
    ELSE LET linspace ==
                 IF inp_linspace.kind # "None" THEN inp_linspace.vals
                 ELSE ramsey_linspace(freq_detuning, num_periods,
                                      points_per_period)
         IN  Outcome("none", "",
                     [big_experiments |->
                          ramsey_loops(freq_detuning, linspace,
                                       delay_duration_sec, buffer_duration,
                                       has_meas_block),
                      ramsey_t2_linspace |-> linspace],
                     1, Len(delay_duration_sec.vals) * Len(linspace))

(***************************************************************************)
(* Inputs                                                                  *)
(***************************************************************************)
\* values handed to the quantizer: whole numbers and quarters, negative
\* ones included
QuantValues ==
    {Rat(n, 1) : n \in -16 .. 16 * MaxMult + 15}
    \cup {Rat(n, 4) : n \in -64 .. 4 * (16 * MaxMult + 15)}

\* the instructions a schedule handed to the checker is made of
CheckerInstrs ==
    {Instr("Play", d) : d \in {0, 16, 24}}
    \cup {Instr("Delay", d) : d \in {0, 16, 24}}
    \cup {Instr("Acquire", d) : d \in {512, 520, 528}}

\* the sequences over S of length at most n
RECURSIVE SeqsUpTo(_, _)
SeqsUpTo(S, n) ==
    IF n = 0 THEN {<<>>}
    ELSE SeqsUpTo(S, n - 1)
         \cup {Append(q, x) : q \in {r \in SeqsUpTo(S, n - 1) : Len(r) = n - 1},
                              x \in S}

\* frequency shifts of an explicit sweep
FreqVals == {Rat(-1, 1), Rat(3, 2)}

\* the freq_linspace arguments: None, a list, a numpy array
SweepArgs ==
    {NoSweep} \cup {ListSweep(q) : q \in SeqsUpTo(FreqVals, MaxN)}
              \cup {ArraySweep(q) : q \in SeqsUpTo(FreqVals, MaxN)}

SpanArgs == {None, Some(6)}

CountArgs == {None} \cup {Some(n) : n \in 0..MaxN}

\* explicit frequency sweeps of the AC-Stark builders
FreqSweeps == SeqsUpTo(FreqVals, MaxN)

\* delays in nanoseconds
DelaySecs == {Rat(0, 1), Rat(10, 1), Rat(100, 1)}

\* the meas_delay_sec / delay_duration_sec arguments
DelayArgs ==
    {FloatArg(x) : x \in DelaySecs}
    \cup {ArrayArg(q) : q \in SeqsUpTo(DelaySecs, MaxM)}

MeasDurations == {100, 160}
QubitDurations == {40}
BufferDurations == {0, 20}
DelayDurationsDt == {128}
Modes == {"gaussian_square", "rectangular", "gaussian", "sawtooth"}

\* Ramsey delays of an explicit inp_linspace, in nanoseconds
RamseySecs == {Rat(0, 1), Rat(50, 1)}

RamseySweepArgs ==
    {NoSweep} \cup {ArraySweep(q) : q \in SeqsUpTo(RamseySecs, MaxN)}

\* freq_detuning in GHz: none, and 10 MHz
Detunings == {Rat(0, 1), Rat(1, 100)}

\* the instructions held by a job, over all its schedules
RECURSIVE InstrCount(_)
InstrCount(job) ==
    IF job = <<>> THEN 0 ELSE Len(Head(job)) + InstrCount(Tail(job))

(***************************************************************************)
(* State machine                                                           *)
(***************************************************************************)
NoObj == [cls |-> "none"]

\* the arguments of a call without any
NoArgs == [none |-> TRUE]

Init ==
    /\ pc = "idle"
    /\ fn = ""
    /\ args = NoArgs
    /\ ret = Returned(NoValue)
    /\ obj = NoObj
    /\ batch = <<>>

\* a module-level function is called and runs to its return or raise
Finish(f, a, r) ==
    /\ pc' = "done"
    /\ fn' = f
    /\ args' = a
    /\ ret' = r
    /\ obj' = obj
    /\ batch' = batch

Call_get_closest_multiple_of_16 ==
    /\ pc = "idle"
    /\ \E v \in QuantValues :
        Finish("get_closest_multiple_of_16", [num |-> v],
               Returned([result |-> get_closest_multiple_of_16(v)]))

\* The caller assembles the list of schedules it will submit as one job.
StartBatch ==
    /\ pc = "idle"
    /\ pc' = "assembling"
    /\ UNCHANGED <<fn, args, ret, obj, batch>>

AppendSchedule ==
    /\ pc = "assembling"
    /\ Len(batch) < MaxJob
    /\ batch' = Append(batch, <<>>)
    /\ UNCHANGED <<pc, fn, args, ret, obj>>

AppendInstruction ==
    /\ pc = "assembling"
    /\ batch # <<>>
    /\ InstrCount(batch) < MaxInstr
    /\ \E i \in CheckerInstrs :
         batch' = [batch EXCEPT ![Len(batch)] = Append(@, i)]
    /\ UNCHANGED <<pc, fn, args, ret, obj>>

Call_acquisition_checker ==
    /\ pc = "assembling"
    /\ Finish("acquisition_checker", [job |-> batch],
              acquisition_checker(batch))

Call_rr_freq_spec ==
    /\ pc = "idle"
    /\ \E span \in SpanArgs, num \in CountArgs, lin \in SweepArgs,
          np_empty_raises \in BOOLEAN :
        Finish("rr_freq_spec",
               [freq_span |-> span, num_experiments |-> num,
                freq_linspace |-> lin, np_empty_raises |-> np_empty_raises],
               rr_freq_spec(span, num, lin, np_empty_raises))

\* A constructor runs; when it returns the instance exists and its get_jobs
\* may be called, when it raises there is no instance.
Construct(f, a, r) ==
    /\ pc' = IF r.out.exc = "none" THEN "constructed" ELSE "done"
    /\ fn' = f
    /\ args' = a
    /\ ret' = r.out
    /\ obj' = r.self
    /\ batch' = batch

Call_RRFreqSpec_init ==
    /\ pc = "idle"
    /\ \E span \in SpanArgs, num \in CountArgs, lin \in SweepArgs,
          np_empty_raises \in BOOLEAN :
        Construct("RRFreqSpec.__init__",
                  [freq_span |-> span, num_experiments |-> num,
                   freq_linspace |-> lin,
                   np_empty_raises |-> np_empty_raises],
                  RRFreqSpec_init(span, num, lin, np_empty_raises))

Call_RRFreqSpec_get_jobs ==
    /\ pc = "constructed"
    /\ obj.cls = "RRFreqSpec"
    /\ Finish("RRFreqSpec.get_jobs", NoArgs, RRFreqSpec_get_jobs(obj))

ACStarkArgs(f, md, qd, bd, ds) ==
    [freq_linspace |-> f, meas_duration |-> md, qubit_duration |-> qd,
     buffer_delay_duration |-> bd, meas_delay_sec |-> ds]

Call_general_ac_stark_photon_experiment ==
    /\ pc = "idle"
    /\ \E f \in FreqSweeps, md \in MeasDurations, qd \in QubitDurations,
          bd \in BufferDurations, ds \in DelayArgs :
        Finish("general_ac_stark_photon_experiment",
               ACStarkArgs(f, md, qd, bd, ds),
               general_ac_stark_photon_experiment(f, md, qd, bd, ds))

ACStarkModeArgs(f, md, qd, bd, ds, mode, dd) ==
    [freq_linspace |-> f, meas_duration |-> md, qubit_duration |-> qd,
     buffer_delay_duration |-> bd, meas_delay_sec |-> ds, mode |-> mode,
     delay_duration_dt |-> dd]

Call_improved_ac_stark_photon_experiment ==
    /\ pc = "idle"
    /\ \E f \in FreqSweeps, md \in MeasDurations, qd \in QubitDurations,
          bd \in BufferDurations, ds \in DelayArgs, mode \in Modes,
          dd \in DelayDurationsDt :
        Finish("improved_ac_stark_photon_experiment",
               ACStarkModeArgs(f, md, qd, bd, ds, mode, dd),
               improved_ac_stark_photon_experiment(f, md, qd, bd, ds, mode, dd))

Call_ACStarkPhoton_init ==
    /\ pc = "idle"
    /\ \E f \in FreqSweeps, md \in MeasDurations, qd \in QubitDurations,
          bd \in BufferDurations, ds \in DelayArgs, mode \in Modes,
          dd \in DelayDurationsDt :
        Construct("ACStarkPhoton.__init__",
                  ACStarkModeArgs(f, md, qd, bd, ds, mode, dd),
                  ACStarkPhoton_init(f, md, qd, bd, ds, mode, dd))

Call_ACStarkPhoton_get_jobs ==
    /\ pc = "constructed"
    /\ obj.cls = "ACStarkPhoton"
    /\ Finish("ACStarkPhoton.get_jobs", NoArgs, ACStarkPhoton_get_jobs(obj))

Call_general_ramsey_t2_experiment ==
    /\ pc = "idle"
    /\ \E fd \in Detunings, np \in {1, 2}, ppp \in {1, 2},
          mb \in BOOLEAN, bd \in BufferDurations, ds \in DelayArgs,
          lin \in RamseySweepArgs :
        Finish("general_ramsey_t2_experiment",
               [freq_detuning |-> fd, num_periods |-> np,
                points_per_period |-> ppp, has_meas_block |-> mb,
                buffer_duration |-> bd, delay_duration_sec |-> ds,
                inp_linspace |-> lin],
               general_ramsey_t2_experiment(fd, np, ppp, mb, bd, ds, lin))

Next ==
    \/ Call_get_closest_multiple_of_16
    \/ StartBatch
    \/ AppendSchedule
    \/ AppendInstruction
    \/ Call_acquisition_checker
    \/ Call_rr_freq_spec
    \/ Call_RRFreqSpec_init
    \/ Call_RRFreqSpec_get_jobs
    \/ Call_general_ac_stark_photon_experiment
    \/ Call_improved_ac_stark_photon_experiment
    \/ Call_ACStarkPhoton_init
    \/ Call_ACStarkPhoton_get_jobs
    \/ Call_general_ramsey_t2_experiment

Spec == Init /\ [][Next]_vars

(***************************************************************************)
(* Properties of the quantizer                                             *)
(***************************************************************************)
QuantDone == pc = "done" /\ fn = "get_closest_multiple_of_16"

\* v = 16k + 8 for an integer k >= 0
IsTie(v) == v[1] >= 0 /\ v[1] % (16 * v[2]) = 8 * v[2]

\* the multiple of 16 just below a tie
TieLower(v) == (v[1] \div v[2]) - 8

\* C1 as stated: a value exactly halfway between two multiples of 16 is
\* quantized to the lower one, quantize16(16k + 8) = 16k.
C1_TieRoundsDown ==
    (QuantDone /\ IsTie(args.num)) => ret.value.result = TieLower(args.num)

\* C1 as amended: a value exactly halfway between two multiples of 16 is
\* quantized to the higher one, quantize16(16k + 8) = 16k + 16, so
\* quantize16(8) = 16 and quantize16(24) = 32.
C1_TieRoundsUp ==
    (QuantDone /\ IsTie(args.num)) => ret.value.result = TieLower(args.num) + 16

C1_Witness ==
    QuantDone /\ args.num = Rat(24, 1) /\ IsTie(args.num) /\ ret.value.result = 32

\* C2: for every non-negative v, get_closest_multiple_of_16(v) is a
\* multiple of 16 and differs from v by at most 8.
C2_NearestGrid ==
    (QuantDone /\ args.num[1] >= 0) =>
        LET n == args.num[1]
            d == args.num[2]
            r == ret.value.result
        IN  /\ r % 16 = 0
            /\ r * d - n <= 8 * d
            /\ n - r * d <= 8 * d

C2_Witness ==
    QuantDone /\ args.num = Rat(93, 4) /\ ret.value.result = 16

(***************************************************************************)
(* Properties of acquisition_checker                                       *)
(***************************************************************************)
CheckerDone == pc = "done" /\ fn = "acquisition_checker"

AcqCount(schedule) == Len(DurationsOf(schedule, {"Acquire"}))

\* some Play or Delay of the job has a zero or non-aligned duration
TimedMisaligned(job, kinds) ==
    \E k \in 1..Len(job) : \E i \in 1..Len(job[k]) :
        /\ job[k][i].op \in kinds
        /\ (job[k][i].duration = 0 \/ job[k][i].duration % 16 # 0)

Rejected == ret.exc # "none"

\* C3: a batch in which some sequence holds no acquisition or more than one
\* (one sequence with two and another with none included) is rejected.
C3_MiscountedSequenceRejected ==
    (CheckerDone /\ \E k \in 1..Len(args.job) : AcqCount(args.job[k]) # 1)
        => Rejected

\* C4: a batch holding a Play or a Delay whose duration is zero or not a
\* multiple of 16 is never accepted.
C4_MisalignedTimedRejected ==
    (CheckerDone /\ TimedMisaligned(args.job, {"Play", "Delay"})) => Rejected

OneAcquisitionEach(job) == \A k \in 1..Len(job) : AcqCount(job[k]) = 1

\* every Play and Delay duration is a multiple of 16 (zero included)
TimedAligned(job) ==
    \A k \in 1..Len(job) : \A i \in 1..Len(job[k]) :
        job[k][i].op \in {"Play", "Delay"} => job[k][i].duration % 16 = 0

PlaysPositive(job) ==
    \A k \in 1..Len(job) : \A i \in 1..Len(job[k]) :
        job[k][i].op = "Play" => job[k][i].duration # 0

\* all acquisition durations of the job are identical and a multiple of 16
AcquisitionsConsistent(job) ==
    LET acq == DurationsOf(FlatOps(job), {"Acquire"})
    IN  \A i \in 1..Len(acq) : acq[i] = acq[1] /\ acq[i] % 16 = 0

InconsistentAcquisitionError ==
    /\ ret.exc = "ValueError"
    /\ ret.msg \in {"not identical", "acquisition not multiple of 16"}

SweepCall == fn \in {"rr_freq_spec", "RRFreqSpec.__init__"}

\* an explicit sweep and the (span, count) pair are both supplied
BothSupplied ==
    /\ args.freq_linspace.kind # "None"
    /\ args.freq_span.some
    /\ args.num_experiments.some

NeitherSupplied ==
    /\ args.freq_linspace.kind = "None"
    /\ ~args.freq_span.some
    /\ ~args.num_experiments.some

BuilderSweep ==
    IF fn = "RRFreqSpec.get_jobs" THEN obj.freq_linspace
    ELSE IF args.freq_linspace.kind = "list" THEN args.freq_linspace.vals
    ELSE linspace_centered(args.freq_span.v, args.num_experiments.v)

\* exactly one representation, complete, and no numpy array
OneSweepSupplied ==
    \/ fn = "RRFreqSpec.get_jobs"
    \/ /\ fn = "rr_freq_spec"
       /\ \/ /\ args.freq_linspace.kind = "list"
             /\ ~args.freq_span.some /\ ~args.num_experiments.some
          \/ /\ args.freq_linspace.kind = "None"
             /\ args.freq_span.some /\ args.num_experiments.some

\* C7: for every sweep length N the builder returns a ground and an excited
\* list of length N, the i-th entries built from the i-th sweep value, and
\* a summary whose total sequence count is 2N.
C7_TwoListsOfSweepLength ==
    (pc = "done" /\ OneSweepSupplied) =>
        LET sweep == BuilderSweep
            N == Len(sweep)
        IN  /\ ret.exc = "none"
            /\ Len(ret.value.g) = N
            /\ Len(ret.value.e) = N
            /\ ret.value.details.total = 2 * N
            /\ \A i \in 1..N :
                  /\ ret.value.g[i].instrs[1] = shift_frequency(sweep[i], "m")
                  /\ ret.value.e[i].instrs[1] = shift_frequency(sweep[i], "m")


(***************************************************************************)
(* Mode strings                                                            *)
(***************************************************************************)
ModeCall ==
    /\ pc = "done"
    /\ fn \in {"improved_ac_stark_photon_experiment", "ACStarkPhoton.__init__"}

\* a mode that the builder called does not recognise
UnrecognizedMode ==
    IF fn = "improved_ac_stark_photon_experiment"
    THEN args.mode \notin improved_modes
    ELSE args.mode \notin supported_modes

\* C8: a builder that takes a mode string reports an unrecognized mode as a
\* configuration error (ValueError) naming the supported modes, raised
\* before any sequence is constructed, and fails in no other way.
C8_UnrecognizedModeIsConfigError ==
    (ModeCall /\ UnrecognizedMode)
        => /\ ret.exc = "ValueError"
           /\ ret.msg = "mode is not supported"
           /\ ret.built = 0

(***************************************************************************)
(* The AC-Stark grid                                                       *)
(***************************************************************************)
\* an AC-Stark builder called with a mode it recognises
ACStarkCall ==
    /\ pc = "done"
    /\ \/ fn = "general_ac_stark_photon_experiment"
       \/ fn = "improved_ac_stark_photon_experiment"
            /\ args.mode \in improved_modes
       \/ fn = "ACStarkPhoton.get_jobs"

\* where the builder called finds its configuration
ACStarkConfig == IF fn = "ACStarkPhoton.get_jobs" THEN obj ELSE args

\* the symbolic template of the builder called
ACStarkTemplate ==
    IF fn = "general_ac_stark_photon_experiment"
    THEN general_template(args.meas_duration, args.qubit_duration,
                          args.buffer_delay_duration)
    ELSE IF fn = "improved_ac_stark_photon_experiment"
    THEN improved_template("Qubit Freq Spec", q16(args.meas_duration),
                           args.qubit_duration, args.buffer_delay_duration,
                           args.delay_duration_dt)
    ELSE improved_template("AC Starks Freq Spec", obj.meas_pulse.duration,
                           obj.qubit_duration, obj.buffer_delay_duration,
                           obj.delay_duration_dt)

\* sched is template with 'freq' bound to f and 'meas delay' to m_delay:
\* same operations on the same channels in the same order, no parameter left
BoundTo(sched, template, f, m_delay) ==
    /\ Len(sched.instrs) = Len(template.instrs)
    /\ \A n \in 1..Len(template.instrs) :
        LET a == sched.instrs[n]
            t == template.instrs[n]
        IN  /\ a.op = t.op
            /\ a.chan = t.chan
            /\ a.align = t.align
            /\ a.param = ""
            /\ t.param = "freq" => a.freq = f
            /\ t.param = "meas delay" => a.duration = m_delay
            /\ t.param = "" => a = t

GridM == Len(ACStarkConfig.meas_delay_sec.vals)
GridN == Len(ACStarkConfig.freq_linspace)
GridDelay(i) == quantized_dt(ACStarkConfig.meas_delay_sec.vals[i])
GridFreq(j) == ACStarkConfig.freq_linspace[j]

\* C9: each AC-Stark builder returns exactly one bound sequence per grid
\* point: M*N sequences for M measurement delays and N frequencies, each the
\* template with 'freq' bound to the point's frequency and 'meas delay' to
\* the point's quantized delay.
C9_OneBoundSequencePerGridPoint ==
    ACStarkCall
        => /\ ret.exc = "none"
           /\ Len(ret.value.big_exp) = GridM * GridN
           /\ \A i \in 1..GridM, j \in 1..GridN :
                \E k \in 1..Len(ret.value.big_exp) :
                    BoundTo(ret.value.big_exp[k], ACStarkTemplate,
                            GridFreq(j), GridDelay(i))
           /\ \A k \in 1..Len(ret.value.big_exp) :
                \E i \in 1..GridM, j \in 1..GridN :
                    BoundTo(ret.value.big_exp[k], ACStarkTemplate,
                            GridFreq(j), GridDelay(i))

(***************************************************************************)
(* Secondary sweeps                                                        *)
(***************************************************************************)
RamseyReturned ==
    /\ pc = "done"
    /\ fn = "general_ramsey_t2_experiment"
    /\ ret.exc = "none"

ACStarkReturned ==
    /\ pc = "done"
    /\ fn \in {"general_ac_stark_photon_experiment",
               "improved_ac_stark_photon_experiment"}
    /\ ret.exc = "none"

\* the duration of the first delay of a sequence on channel c
FirstDelayOn(sched, c) ==
    LET ns == {n \in 1..Len(sched.instrs) :
                   sched.instrs[n].op = "Delay" /\ sched.instrs[n].chan = c}
        first == CHOOSE n \in ns : \A m \in ns : n <= m
    IN  sched.instrs[first].duration

\* the Ramsey result is a list of lists: one inner list per delay_duration_sec
\* value, and in it one sequence per Ramsey delay, both in input order
RamseyNested ==
    LET outer == ret.value.big_experiments
        linspace == ret.value.ramsey_t2_linspace
        delays == args.delay_duration_sec.vals
    IN  /\ Len(outer) = Len(delays)
        /\ \A i \in 1..Len(delays) :
            /\ Len(outer[i]) = Len(linspace)
            /\ \A j \in 1..Len(linspace) :
                /\ FirstDelayOn(outer[i][j], "m") = quantized_dt(delays[i])
                /\ FirstDelayOn(outer[i][j], "d")
                       = q16(get_dt_from(linspace[j], BackendDt))

\* C10 as stated: every builder with a secondary sweep returns a list with
\* one entry per secondary sweep value, in input order, each entry holding
\* the primary-sweep sequences of that value.
C10_OneEntryPerSecondaryValue ==
    /\ RamseyReturned => RamseyNested
    /\ ACStarkReturned => Len(ret.value.big_exp) = GridM

\* C10, amended: general_ramsey_t2_experiment returns a list of lists, outer
\* by delay_duration_sec and inner by Ramsey delay; the AC-Stark functions
\* return one flat list of M*N sequences, measurement delay outermost:
\* entry (i-1)*N + j is bound to delay i and frequency j.
C10_NestedRamseyFlatACStark ==
    /\ RamseyReturned => RamseyNested
    /\ ACStarkReturned =>
        /\ Len(ret.value.big_exp) = GridM * GridN
        /\ \A i \in 1..GridM, j \in 1..GridN :
            BoundTo(ret.value.big_exp[(i - 1) * GridN + j], ACStarkTemplate,
                    GridFreq(j), GridDelay(i))

\* two measurement delays that quantize apart, two different frequencies
C10_Witness ==
    /\ ACStarkReturned
    /\ GridM = 2
    /\ GridN = 2
    /\ GridDelay(1) # GridDelay(2)
    /\ GridFreq(1) # GridFreq(2)
    /\ Len(ret.value.big_exp) = 4

(***************************************************************************)
(* Incomplete sweep specifications                                         *)
(***************************************************************************)
\* exactly one representation of the sweep is supplied, and it is complete
ExactlyOneComplete ==
    \/ /\ args.freq_linspace.kind # "None"
       /\ ~args.freq_span.some
       /\ ~args.num_experiments.some
    \/ /\ args.freq_linspace.kind = "None"
       /\ args.freq_span.some
       /\ args.num_experiments.some

\* C11: rr_freq_spec and RRFreqSpec accept a sweep specification only when
\* exactly one complete representation is supplied; every other combination,
\* a lone freq_span or a lone num_experiments included, raises the
\* configuration error (a ValueError) before the catalog is looked up and
\* before any sequence is built, and fails in no other way.
C11_IncompleteSweepIsConfigError ==
    (SweepCall /\ ~ExactlyOneComplete) =>
        /\ pc = "done"
        /\ ret.exc = "ValueError"
        /\ ret.lookups = 0
        /\ ret.built = 0
        /\ obj.cls = "none"

(***************************************************************************)
(* Timed durations                                                         *)
(***************************************************************************)
OnGrid(d) == d >= 0 /\ d % 16 = 0

\* every sequence a finished builder call returned, as one list
ReturnedSequences ==
    IF fn = "general_ramsey_t2_experiment"
    THEN Flatten(ret.value.big_experiments)
    ELSE ret.value.big_exp

\* the tick counts the call obtained from get_dt_from and quantized again
ConvertedDelays ==
    IF fn = "general_ramsey_t2_experiment"
    THEN {get_dt_from(args.delay_duration_sec.vals[i], DefaultDt) :
              i \in 1..Len(args.delay_duration_sec.vals)}
         \cup {get_dt_from(ret.value.ramsey_t2_linspace[j], BackendDt) :
                   j \in 1..Len(ret.value.ramsey_t2_linspace)}
    ELSE {get_dt_from(args.meas_delay_sec.vals[i], DefaultDt) :
              i \in 1..Len(args.meas_delay_sec.vals)}

\* C12: in every sequence returned by general_ramsey_t2_experiment,
\* general_ac_stark_photon_experiment and improved_ac_stark_photon_experiment
\* every play duration and every delay duration is a non-negative multiple
\* of 16, and quantizing again a value that get_dt_from or the quantizer
\* returned leaves it unchanged.
C12_TimedDurationsOnGrid ==
    /\ (RamseyReturned \/ ACStarkReturned) =>
        /\ \A k \in 1..Len(ReturnedSequences) :
            \A n \in 1..Len(ReturnedSequences[k].instrs) :
                LET i == ReturnedSequences[k].instrs[n]
                IN  i.op \in {"Play", "Delay"} => OnGrid(i.duration)
        /\ \A d \in ConvertedDelays : OnGrid(d) /\ q16(d) = d
    /\ QuantDone => q16(ret.value.result) = ret.value.result

\* durations that are off the grid as given: 100 -> 96, 20 -> 16, and a
\* delay of 10 ns = 45 samples -> 48
C12_Witness ==
    /\ ACStarkReturned
    /\ fn = "general_ac_stark_photon_experiment"
    /\ args.meas_duration = 100
    /\ args.buffer_delay_duration = 20
    /\ args.meas_delay_sec = FloatArg(Rat(10, 1))
    /\ Len(ret.value.big_exp) = 1
    /\ ret.value.big_exp[1].instrs[2].duration = 96
    /\ ret.value.big_exp[1].instrs[3].duration = 48
    /\ ret.value.big_exp[1].instrs[5].duration = 16

=============================================================================
